---- MODULE Spec2Model ----
(***************************************************************************)
(* Model of src/dexbot.py: the SolanaDexBot coroutines analyze_token and   *)
(* execute_swap, the SecurityManager they consult, and the report line     *)
(* TelegramBot.analyze builds from an analysis.                            *)
(*                                                                         *)
(* A coroutine gives up control only at its awaits, so one action is the   *)
(* code between two awaits.  execute_swap awaits the quote response and    *)
(* the swap response; analyze_token awaits the market-data response only   *)
(* (the two RPC calls that follow are blocking calls).                     *)
(*                                                                         *)
(* Units: priceImpactPct is in thousandths (0.1 is 100), SOL amounts are   *)
(* in hundredths of a SOL (0.1 SOL is 10), liquidity is in USD.            *)
(***************************************************************************)
EXTENDS Integers, Sequences, FiniteSets, TLC

VARIABLES blacklist, calls, started

vars == <<blacklist, calls, started>>

\* ---------------------------------------------------------------- bounds
\* Invocations of analyze_token / execute_swap started in one behaviour.
MaxInvocations == 3

\* ------------------------------------------------------- input universes
\* Coroutine slots: two are enough for two calls to overlap.
Calls == {"c1", "c2"}

\* str(update.message.chat_id) of the users that issue /buy.
Wallets == {"111", "666"}

\* Token mint addresses given to /analyze and /buy.
Tokens == {"GOODTOKEN", "RUGTOKEN"}

\* SOL amounts of /buy, in hundredths of a SOL: 0.05 and 0.5.
Amounts == {5, 50}

\* liquidity.usd values the market-data source may report.
Liquidities == {4000, 5000, 30000}

\* owner.burns values the chain RPC may report.
Burns == {3, 4}

\* Quotes the Jupiter /quote endpoint may answer with.
Quotes ==
    [priceImpactPct : {50, 100, 150},
     marketInfos : {<<>>, <<"Raydium">>, <<"Orca", "Raydium">>}]

\* ------------------------------------------------------------ the config
dex_programs ==
    [raydium |-> "675kPX9MHTjS2zt1qfr1NYHuzeLXfQM9H24wFSUt1Mp8",
     orca |-> "9W959DqEETiGZocYWCQPaJ6sBmUzgfxXfqGeTEdap3XV"]

min_liquidity == 5000

max_creator_burns == 3

\* The literal 0.1 of validate_quote, in thousandths.
MaxPriceImpact == 100

\* str(token_info.owner) values the chain RPC may report.
ProgramIds == {dex_programs.raydium, dex_programs.orca, "11111111111111111111111111111111"}

\* ------------------------------------------------------- SecurityManager
\* _load_blacklist is a stub for an external source ("would load from
\* external source in production"): the two sets are what that source
\* holds when the bot starts.  As shipped both are empty.
LoadableBlacklists ==
    [HoneyPotTokens : {{}, {"RUGTOKEN"}},
     KnownScamWallets : {{}, {"666"}}]

\* SecurityManager keeps the blacklist and nothing else: there is no login
\* operation and no session table, so no user ever holds a session.
ValidSessions == {}

verify_wallet_inverted(wallet) == wallet \in blacklist.KnownScamWallets

verify_wallet(wallet) == wallet \notin blacklist.KnownScamWallets

validate_quote_inclusive(quote) ==
    IF quote.priceImpactPct <= MaxPriceImpact
    THEN IF Len(quote.marketInfos) = 0 THEN "IndexError"
         ELSE IF quote.marketInfos[1] = "Raydium" THEN "True" ELSE "False"
    ELSE "False"

\* `a and b` evaluates b only when a is true; marketInfos[0] of an empty
\* list raises IndexError.
validate_quote(quote) ==
    IF quote.priceImpactPct < MaxPriceImpact
    THEN IF Len(quote.marketInfos) = 0 THEN "IndexError"
         ELSE IF quote.marketInfos[1] = "Raydium" THEN "True" ELSE "False"
    ELSE "False"

\* ---------------------------------------------------------- SolanaDexBot
_check_liquidity(token) ==
    IF token.liquidity > min_liquidity THEN "high" ELSE "low"

_check_program_risk(token) ==
    IF token.program_id \in {dex_programs.raydium, dex_programs.orca}
    THEN "verified" ELSE "unverified"

_check_creator_behavior(token) ==
    IF token.creator_burns > max_creator_burns THEN "high" ELSE "low"

\* The analysis dict of analyze_token (merged over token_data).
analyze(token_data) ==
    [rug_risk |-> "low",
     liquidity_risk |-> _check_liquidity(token_data),
     program_risk |-> _check_program_risk(token_data),
     creator_risk |-> _check_creator_behavior(token_data)]

_sign_and_send(transaction, wallet) == "SIMULATED_TX_ID"

\* The "Overall Safety" line of the /analyze report.
OverallSafety(analysis) == analysis.rug_risk

\* ------------------------------------------------------------ call state
\* An optional value is a sequence of length 0 or 1.
Idle ==
    [op |-> "none", pc |-> "idle",
     user_wallet |-> "", token |-> "", amount |-> 0,
     steps |-> <<>>,
     market |-> "none", chain |-> "none",
     token_data |-> <<>>, analysis |-> <<>>,
     quote |-> <<>>, posted |-> <<>>,
     result |-> ""]

Init ==
    /\ blacklist \in LoadableBlacklists
    /\ calls = [c \in Calls |-> Idle]
    /\ started = 0

\* analyze_token is called: _fetch_token_data issues the market-data GET.
StartAnalyze(c, address) ==
    /\ calls[c].pc = "idle"
    /\ started < MaxInvocations
    /\ started' = started + 1
    /\ calls' = [calls EXCEPT ![c] =
                   [Idle EXCEPT !.op = "analyze", !.pc = "await_market",
                                !.token = address,
                                !.steps = <<"market_request">>]]
    /\ UNCHANGED blacklist

\* The market-data GET or resp.json() raises.
MarketFails(c) ==
    /\ calls[c].pc = "await_market"
    /\ calls' = [calls EXCEPT ![c].pc = "raised",
                              ![c].market = "failed",
                              ![c].result = "ClientError"]
    /\ UNCHANGED <<blacklist, started>>

\* The market data arrives, then get_account_info / get_mint_info raises.
ChainFails(c) ==
    /\ calls[c].pc = "await_market"
    /\ calls' = [calls EXCEPT ![c].pc = "raised",
                              ![c].market = "ok",
                              ![c].chain = "failed",
                              ![c].steps = @ \o <<"market_response", "chain_request">>,
                              ![c].result = "RPCException"]
    /\ UNCHANGED <<blacklist, started>>

\* Both sources answer but the market data lists no pair: pairs[0] raises.
NoPairs(c) ==
    /\ calls[c].pc = "await_market"
    /\ calls' = [calls EXCEPT ![c].pc = "raised",
                              ![c].market = "no_pairs",
                              ![c].chain = "ok",
                              ![c].steps = @ \o <<"market_response", "chain_request">>,
                              ![c].result = "IndexError"]
    /\ UNCHANGED <<blacklist, started>>

\* Both sources answer: token_data is built and the analysis returned.
AnalyzeReturns(c, liquidity, creator_burns, program_id) ==
    /\ calls[c].pc = "await_market"
    /\ LET token_data == [address |-> calls[c].token,
                          liquidity |-> liquidity,
                          creator_burns |-> creator_burns,
                          program_id |-> program_id]
       IN calls' = [calls EXCEPT ![c].pc = "returned",
                                 ![c].market = "ok",
                                 ![c].chain = "ok",
                                 ![c].steps = @ \o <<"market_response", "chain_request", "analysis">>,
                                 ![c].token_data = <<token_data>>,
                                 ![c].analysis = <<analyze(token_data)>>]
    /\ UNCHANGED <<blacklist, started>>

\* execute_swap is called: the wallet check, then the quote GET.
StartSwap(c, user_wallet, token_in, amount) ==
    /\ calls[c].pc = "idle"
    /\ started < MaxInvocations
    /\ started' = started + 1
    /\ LET call == [Idle EXCEPT !.op = "swap", !.user_wallet = user_wallet,
                                !.token = token_in, !.amount = amount]
       IN IF ~verify_wallet(user_wallet)
          THEN calls' = [calls EXCEPT ![c] =
                           [call EXCEPT !.pc = "raised",
                                        !.steps = <<"verify_wallet">>,
                                        !.result = "Wallet verification failed"]]
          ELSE calls' = [calls EXCEPT ![c] =
                           [call EXCEPT !.pc = "await_quote",
                                        !.steps = <<"verify_wallet", "quote_request">>]]
    /\ UNCHANGED blacklist

\* The quote GET or resp.json() raises.
QuoteFails(c) ==
    /\ calls[c].pc = "await_quote"
    /\ calls' = [calls EXCEPT ![c].pc = "raised",
                              ![c].result = "ClientError"]
    /\ UNCHANGED <<blacklist, started>>

\* The quote arrives and is validated; a valid quote is posted to /swap.
QuoteResponds(c, quote) ==
    /\ calls[c].pc = "await_quote"
    /\ LET verdict == validate_quote(quote)
           steps == calls[c].steps \o <<"quote_response", "validate_quote">>
       IN calls' =
            IF verdict = "True"
            THEN [calls EXCEPT ![c].pc = "await_swap",
                               ![c].quote = <<quote>>,
                               ![c].posted = <<quote>>,
                               ![c].steps = steps \o <<"swap_request">>]
            ELSE [calls EXCEPT ![c].pc = "raised",
                               ![c].quote = <<quote>>,
                               ![c].steps = steps,
                               ![c].result = IF verdict = "False"
                                             THEN "Invalid swap quote"
                                             ELSE verdict]
    /\ UNCHANGED <<blacklist, started>>

\* The swap POST raises, or its answer has no swapTransaction.
SwapFails(c) ==
    /\ calls[c].pc = "await_swap"
    /\ calls' = [calls EXCEPT ![c].pc = "raised",
                              ![c].result = "ClientError"]
    /\ UNCHANGED <<blacklist, started>>

\* The swap transaction arrives and goes to _sign_and_send.
SwapResponds(c) ==
    /\ calls[c].pc = "await_swap"
    /\ calls' = [calls EXCEPT ![c].pc = "returned",
                              ![c].steps = @ \o <<"swap_response", "sign_and_send">>,
                              ![c].result = _sign_and_send("swapTransaction", calls[c].user_wallet)]
    /\ UNCHANGED <<blacklist, started>>

\* The caller has taken the result or the exception.
Release(c) ==
    /\ calls[c].pc \in {"returned", "raised"}
    /\ calls' = [calls EXCEPT ![c] = Idle]
    /\ UNCHANGED <<blacklist, started>>

Next ==
    \E c \in Calls :
        \/ \E address \in Tokens : StartAnalyze(c, address)
        \/ MarketFails(c)
        \/ ChainFails(c)
        \/ NoPairs(c)
        \/ \E liquidity \in Liquidities, creator_burns \in Burns, program_id \in ProgramIds :
              AnalyzeReturns(c, liquidity, creator_burns, program_id)
        \/ \E user_wallet \in Wallets, token_in \in Tokens, amount \in Amounts :
              StartSwap(c, user_wallet, token_in, amount)
        \/ QuoteFails(c)
        \/ \E quote \in Quotes : QuoteResponds(c, quote)
        \/ SwapFails(c)
        \/ SwapResponds(c)
        \/ Release(c)

Spec == Init /\ [][Next]_vars

\* ------------------------------------------------- vocabulary of the claims
Did(c, step) == \E i \in 1..Len(calls[c].steps) : calls[c].steps[i] = step

IsPrefix(s, t) == Len(s) <= Len(t) /\ \A i \in 1..Len(s) : s[i] = t[i]

Finished(c) == calls[c].pc \in {"returned", "raised"}

\* execute_swap handed a transaction id back to its caller.
Submitted(c) == calls[c].op = "swap" /\ calls[c].pc = "returned"

Analyzed(c) == calls[c].op = "analyze" /\ calls[c].pc = "returned"

\* low < medium ~ unknown < high
RiskOrdinal(level) ==
    CASE level = "low" -> 0
      [] level = "medium" -> 1
      [] level = "unknown" -> 1
      [] level = "high" -> 2

MaxOrdinal(S) == CHOOSE m \in S : \A n \in S : n <= m

SwapStepOrder ==
    <<"verify_wallet", "quote_request", "quote_response", "validate_quote",
      "swap_request", "swap_response", "sign_and_send">>

\* ------------------------------------------------------------------ claims

\* C1: execute_swap returns a transaction id only if, in that same call, a
\* risk verdict for the output token was obtained and passed and the quote
\* passed validation.
C1_SubmittedOnlyAfterRiskAndGuard ==
    \A c \in Calls :
        Submitted(c) =>
            /\ Len(calls[c].analysis) = 1
            /\ OverallSafety(calls[c].analysis[1]) # "high"
            /\ Did(c, "validate_quote")

\* C2: a trade of a user without a valid session ends as
\* AuthenticationRequired and performs no quote fetch, swap request or
\* signing.
C2_NoSessionNoTrade ==
    \A c \in Calls :
        (calls[c].op = "swap" /\ calls[c].user_wallet \notin ValidSessions) =>
            /\ ~Did(c, "quote_request")
            /\ ~Did(c, "swap_request")
            /\ ~Did(c, "sign_and_send")
            /\ Finished(c) => calls[c].result = "AuthenticationRequired"

\* C3: a trade of more than 0.1 SOL (10 hundredths) is rejected with
\* AmountExceedsLimit and never submitted.
C3_AmountOverLimitRejected ==
    \A c \in Calls :
        (calls[c].op = "swap" /\ calls[c].amount > 10) =>
            /\ ~Submitted(c)
            /\ ~Did(c, "sign_and_send")
            /\ Finished(c) => calls[c].result = "AmountExceedsLimit"

\* C4: with the route check passing, a quote is rejected when its price
\* impact is at or above 0.1 and accepted when strictly below; a quote
\* rejected for price impact is never posted to /swap nor signed.
C4_PriceImpactThreshold ==
    \A c \in Calls :
        (calls[c].op = "swap" /\ Len(calls[c].quote) = 1) =>
            LET quote == calls[c].quote[1]
                routeOk == Len(quote.marketInfos) > 0 /\ quote.marketInfos[1] = "Raydium"
            IN /\ quote.priceImpactPct >= MaxPriceImpact =>
                    /\ calls[c].pc = "raised"
                    /\ calls[c].result = "Invalid swap quote"
                    /\ calls[c].posted = <<>>
                    /\ ~Did(c, "swap_request")
                    /\ ~Did(c, "sign_and_send")
               /\ (routeOk /\ quote.priceImpactPct < MaxPriceImpact) =>
                    /\ calls[c].posted = <<quote>>
                    /\ Did(c, "swap_request")
                    /\ calls[c].result # "Invalid swap quote"

\* One call rejected at exactly the threshold and one accepted just below.
C4_Witness ==
    \E c, d \in Calls :
        /\ calls[c].op = "swap" /\ Len(calls[c].quote) = 1
        /\ calls[c].quote[1] = [priceImpactPct |-> 100, marketInfos |-> <<"Raydium">>]
        /\ calls[c].pc = "raised"
        /\ calls[d].op = "swap" /\ Len(calls[d].quote) = 1
        /\ calls[d].quote[1] = [priceImpactPct |-> 50, marketInfos |-> <<"Raydium">>]
        /\ calls[d].pc = "await_swap"

C6_OverallIsMaxOfDimensions ==
    \A c \in Calls :
        Analyzed(c) =>
            LET a == calls[c].analysis[1]
            IN RiskOrdinal(OverallSafety(a)) =
                   MaxOrdinal({RiskOrdinal(a.liquidity_risk),
                               RiskOrdinal(a.creator_risk),
                               RiskOrdinal(a.rug_risk)})

\* C7: liquidity_risk is high exactly when liquidity is below the minimum,
\* low otherwise.
C7_LiquidityRiskRule ==
    \A c \in Calls :
        Analyzed(c) =>
            LET liquidity == calls[c].token_data[1].liquidity
                risk == calls[c].analysis[1].liquidity_risk
            IN /\ risk = "high" <=> liquidity < min_liquidity
               /\ risk = "low" <=> liquidity >= min_liquidity

\* C8: at no time are two market-data fetches for the same token address in
\* flight.
C8_OneFetchInFlightPerAddress ==
    \A c, d \in Calls :
        (c # d /\ calls[c].pc = "await_market" /\ calls[d].pc = "await_market") =>
            calls[c].token # calls[d].token

\* C9: when the market-data source succeeds and the chain RPC fails, the
\* analysis still returns a result and does not end in an error.
C9_OptionalSourceFailureTolerated ==
    \A c \in Calls :
        (calls[c].op = "analyze" /\ calls[c].market = "ok" /\ calls[c].chain = "failed") =>
            /\ calls[c].pc = "returned"
            /\ Len(calls[c].analysis) = 1

\* C10: execute_swap runs wallet check, quote fetch, quote validation, swap
\* request, sign-and-send in that order; the swap request carries the quote
\* fetched in this call, which has price impact below 0.1 and Raydium as
\* first hop; a failed wallet check or quote validation ends the call with
\* an error before any swap request or signing.
C10_SwapStepOrder ==
    \A c \in Calls :
        calls[c].op = "swap" =>
            /\ IsPrefix(calls[c].steps, SwapStepOrder)
            /\ Did(c, "quote_request") =>
                    calls[c].user_wallet \notin blacklist.KnownScamWallets
            /\ calls[c].user_wallet \in blacklist.KnownScamWallets =>
                    /\ calls[c].pc = "raised"
                    /\ calls[c].steps = <<"verify_wallet">>
            /\ Did(c, "swap_request") =>
                    /\ Len(calls[c].quote) = 1
                    /\ calls[c].posted = calls[c].quote
                    /\ calls[c].quote[1].priceImpactPct < 100
                    /\ Len(calls[c].quote[1].marketInfos) > 0
                    /\ calls[c].quote[1].marketInfos[1] = "Raydium"
            /\ (/\ Len(calls[c].quote) = 1
                /\ \/ calls[c].quote[1].priceImpactPct >= 100
                   \/ Len(calls[c].quote[1].marketInfos) = 0
                   \/ calls[c].quote[1].marketInfos[1] # "Raydium") =>
                    /\ calls[c].pc = "raised"
                    /\ calls[c].posted = <<>>
                    /\ ~Did(c, "swap_request")
            /\ Submitted(c) => calls[c].steps = SwapStepOrder

\* One call went through all five steps, another stopped at the wallet check.
C10_Witness ==
    \E c, d \in Calls :
        /\ Submitted(c)
        /\ calls[c].result = "SIMULATED_TX_ID"
        /\ calls[d].op = "swap"
        /\ calls[d].result = "Wallet verification failed"

====
